---- MODULE Spec2Model ----
(***************************************************************************)
(* Model of node-wordpress-shortcode (src/index.js): the shortcode         *)
(* matcher built by Shortcode.regexp, the scan Shortcode.next, the         *)
(* attribute parser Shortcode.attrs, the Shortcode entity (constructor,    *)
(* set, string) and the substitution pass Shortcode.replace.               *)
(*                                                                         *)
(* A JavaScript string is a sequence of one-character strings; offsets     *)
(* are 0-based as in the source.  The JavaScript value undefined is the    *)
(* one-element sequence Undefined, which is no string of the model.        *)
(***************************************************************************)
EXTENDS Integers, Sequences, FiniteSets, TLC

----------------------------------------------------------------------------
(* Strings *)

Undefined == <<"undefined">>

\* JavaScript truthiness of a string-or-undefined value.
Truthy(s) == s # Undefined /\ s # <<>>

\* s[i], 0-based.
Char(s, i) == s[i + 1]

\* s.slice(a, b) for 0 <= a <= b <= s.length.
Slice(s, a, b) == SubSeq(s, a + 1, b)

\* The characters \w matches among those the model uses, and [\w-].
WordChars == {"x", "y", "a", "b", "A", "k", "R", "_"}

IsWordOrHyphen(c) == c \in WordChars \/ c = "-"

\* The characters \s matches among those the model uses.
IsSpace(c) == c = " "

\* String.prototype.toLowerCase on one character.
LowerChar(c) == IF c = "A" THEN "a" ELSE IF c = "R" THEN "r" ELSE c

ToLowerCase(s) == [i \in 1..Len(s) |-> LowerChar(s[i])]

RECURSIVE IndexOfChar(_, _, _)
\* First offset j >= from with s[j] = c, or -1.
IndexOfChar(s, c, from) ==
  IF from >= Len(s) THEN -1
  ELSE IF Char(s, from) = c THEN from
  ELSE IndexOfChar(s, c, from + 1)

\* Whether sub occurs in s at offset j.
OccursAt(s, sub, j) ==
  /\ j + Len(sub) <= Len(s)
  /\ \A k \in 1..Len(sub) : s[j + k] = sub[k]

RECURSIVE IndexOfSub(_, _, _)
\* s.indexOf(sub, from): first offset j >= from where sub occurs, or -1.
IndexOfSub(s, sub, from) ==
  IF from + Len(sub) > Len(s) THEN -1
  ELSE IF OccursAt(s, sub, from) THEN from
  ELSE IndexOfSub(s, sub, from + 1)

----------------------------------------------------------------------------
(* Shortcode.regexp: the matcher of a tag *)

\* The tag is spliced into the pattern source unescaped, so its characters
\* are pattern syntax: "." matches any character, "(" opens a group.
AtomMatches(a, c) == a = "." \/ a = c

\* new RegExp(...) throws a SyntaxError when the spliced tag leaves a group open.
Compiles(tag) == \A i \in 1..Len(tag) : tag[i] # "("

\* Whether the pattern of the tag matches text[p .. p + tag.length).
TagAt(tag, text, p) ==
  /\ p + Len(tag) <= Len(text)
  /\ \A k \in 1..Len(tag) : AtomMatches(tag[k], text[p + k])

NoMatch == [found |-> FALSE]

\* One attempt of the pattern at offset i with capture group 1 fixed to left:
\*   \[ (\[?) (tag) (?![\w-]) (attrs) (?: (\/)\] | \] (?: (content)(\[\/\2\]) )? ) (\]?)
\* attrs runs to the first "]" (a "/" right before it is group 4); content
\* runs to the first "[/" \2 "]", and is absent when there is none.
MatchWith(tag, text, i, left) ==
  LET p == i + 1 + Len(left)
      q == p + Len(tag)
      j == IndexOfChar(text, "]", q)
  IN IF ~TagAt(tag, text, p) THEN NoMatch
     ELSE IF q < Len(text) /\ IsWordOrHyphen(Char(text, q)) THEN NoMatch
     ELSE IF j < 0 THEN NoMatch
     ELSE
       LET name == Slice(text, p, q)
           self == j > q /\ Char(text, j - 1) = "/"
           close == <<"[", "/">> \o name \o <<"]">>
           c == IF self THEN -1 ELSE IndexOfSub(text, close, j + 1)
           e == IF c >= 0 THEN c + Len(close) ELSE j + 1
           right == IF e < Len(text) /\ Char(text, e) = "]" THEN <<"]">> ELSE <<>>
           end == e + Len(right)
       IN [found |-> TRUE,
           index |-> i,
           lastIndex |-> end,
           m0 |-> Slice(text, i, end),
           m1 |-> left,
           m2 |-> name,
           m3 |-> IF self THEN Slice(text, q, j - 1) ELSE Slice(text, q, j),
           m4 |-> IF self THEN <<"/">> ELSE Undefined,
           m5 |-> IF c >= 0 THEN Slice(text, j + 1, c) ELSE Undefined,
           m6 |-> IF c >= 0 THEN close ELSE Undefined,
           m7 |-> right]

\* The pattern at offset i: (\[?) is greedy, so "[" is tried for group 1
\* before the empty string.
MatchAt(tag, text, i) ==
  IF i >= Len(text) \/ Char(text, i) # "[" THEN NoMatch
  ELSE LET greedy == IF i + 1 < Len(text) /\ Char(text, i + 1) = "["
                     THEN MatchWith(tag, text, i, <<"[">>)
                     ELSE NoMatch
       IN IF greedy.found THEN greedy ELSE MatchWith(tag, text, i, <<>>)

RECURSIVE Exec(_, _, _)
\* RegExp.prototype.exec of the global matcher with lastIndex = from: the
\* leftmost match at or after from.  A failed exec leaves lastIndex = 0.
Exec(tag, text, from) ==
  IF from >= Len(text) THEN NoMatch
  ELSE LET m == MatchAt(tag, text, from)
       IN IF m.found THEN m ELSE Exec(tag, text, from + 1)

----------------------------------------------------------------------------
(* Shortcode.attrs: the attribute parser *)

\* text.replace(/[\u00a0\u200b]/g, " "); "nbsp" stands for either character.
MapSpaces(text) == [i \in 1..Len(text) |-> IF text[i] = "nbsp" THEN " " ELSE text[i]]

\* The character classes of the attribute pattern: \w, \s, \S and [^\s'"].
InClass(class, c) ==
  IF class = "word" THEN c \in WordChars
  ELSE IF class = "space" THEN IsSpace(c)
  ELSE IF class = "nonspace" THEN ~IsSpace(c)
  ELSE ~IsSpace(c) /\ c # "'" /\ c # "\""

RECURSIVE SkipWhile(_, _, _)
\* First offset >= from that holds no character of the class, or text.length.
SkipWhile(text, from, class) ==
  IF from >= Len(text) THEN from
  ELSE IF ~InClass(class, Char(text, from)) THEN from
  ELSE SkipWhile(text, from + 1, class)

\* (?:\s|$) at offset j.
SpaceOrEnd(text, j) == j = Len(text) \/ (j < Len(text) /\ IsSpace(Char(text, j)))

\* The offset after the (?:\s|$) that ends a token at offset j.
AfterToken(text, j) == IF j < Len(text) THEN j + 1 ELSE j

NoToken == [found |-> FALSE]

\* (\w+)\s*=\s*"([^"]*)"(?:\s|$) and (\w+)\s*=\s*'([^']*)'(?:\s|$) at offset i.
QuotedNamed(text, i, quote) ==
  LET w == SkipWhile(text, i, "word")
      eq == SkipWhile(text, w, "space")
      v == SkipWhile(text, eq + 1, "space")
      cq == IndexOfChar(text, quote, v + 1)
  IN IF /\ w > i
        /\ eq < Len(text) /\ Char(text, eq) = "="
        /\ v < Len(text) /\ Char(text, v) = quote
        /\ cq >= 0 /\ SpaceOrEnd(text, cq + 1)
     THEN [found |-> TRUE, named |-> TRUE, key |-> Slice(text, i, w),
           value |-> Slice(text, v + 1, cq), lastIndex |-> AfterToken(text, cq + 1)]
     ELSE NoToken

\* (\w+)\s*=\s*([^\s'"]+)(?:\s|$) at offset i.
BareNamed(text, i) ==
  LET w == SkipWhile(text, i, "word")
      eq == SkipWhile(text, w, "space")
      v == SkipWhile(text, eq + 1, "space")
      ve == SkipWhile(text, v, "bare")
  IN IF /\ w > i
        /\ eq < Len(text) /\ Char(text, eq) = "="
        /\ ve > v /\ SpaceOrEnd(text, ve)
     THEN [found |-> TRUE, named |-> TRUE, key |-> Slice(text, i, w),
           value |-> Slice(text, v, ve), lastIndex |-> AfterToken(text, ve)]
     ELSE NoToken

\* "([^"]*)"(?:\s|$) at offset i.
QuotedNumeric(text, i) ==
  LET cq == IndexOfChar(text, "\"", i + 1)
  IN IF Char(text, i) = "\"" /\ cq >= 0 /\ SpaceOrEnd(text, cq + 1)
     THEN [found |-> TRUE, named |-> FALSE, key |-> <<>>,
           value |-> Slice(text, i + 1, cq), lastIndex |-> AfterToken(text, cq + 1)]
     ELSE NoToken

\* (\S+)(?:\s|$) at offset i, which holds a non-space character.
BareNumeric(text, i) ==
  LET e == SkipWhile(text, i, "nonspace")
  IN [found |-> TRUE, named |-> FALSE, key |-> <<>>,
      value |-> Slice(text, i, e), lastIndex |-> AfterToken(text, e)]

\* pattern.exec(text) with lastIndex = from: the five alternatives in order
\* at the first offset where one of them matches (the first non-space one).
AttrToken(text, from) ==
  LET i == SkipWhile(text, from, "space")
  IN IF i >= Len(text) THEN NoToken
     ELSE IF QuotedNamed(text, i, "\"").found THEN QuotedNamed(text, i, "\"")
     ELSE IF QuotedNamed(text, i, "'").found THEN QuotedNamed(text, i, "'")
     ELSE IF BareNamed(text, i).found THEN BareNamed(text, i)
     ELSE IF QuotedNumeric(text, i).found THEN QuotedNumeric(text, i)
     ELSE BareNumeric(text, i)

\* obj[key] = value on an object kept as its <<key, value>> pairs in
\* insertion order: an existing key keeps its place.
SetKey(obj, key, value) ==
  IF \E i \in 1..Len(obj) : obj[i][1] = key
  THEN [i \in 1..Len(obj) |-> IF obj[i][1] = key THEN <<key, value>> ELSE obj[i]]
  ELSE Append(obj, <<key, value>>)

RECURSIVE AttrsLoop(_, _, _, _)
\* while ((match = pattern.exec(text))) { ... }
AttrsLoop(text, from, named, numeric) ==
  LET t == AttrToken(text, from)
  IN IF ~t.found THEN [named |-> named, numeric |-> numeric]
     ELSE IF t.named
       THEN AttrsLoop(text, t.lastIndex, SetKey(named, ToLowerCase(t.key), t.value), numeric)
     ELSE IF Truthy(t.value)
       THEN AttrsLoop(text, t.lastIndex, named, Append(numeric, t.value))
     ELSE AttrsLoop(text, t.lastIndex, named, numeric)

\* The function Shortcode.attrs memoizes.
attrs(text) == AttrsLoop(MapSpaces(text), 0, <<>>, <<>>)

EmptyAttrs == [named |-> <<>>, numeric |-> <<>>]

----------------------------------------------------------------------------
(* The Shortcode entity *)

\* new Shortcode(options) for options.attrs undefined or a string whose
\* parse is parsed (the value Shortcode.attrs returns for it).
ShortcodeOf(tag, attrText, parsed, type, content) ==
  [tag |-> tag,
   attrs |-> IF Truthy(attrText) THEN parsed ELSE EmptyAttrs,
   type |-> type,
   content |-> content]

\* The type is taken from the content group instead of the closing tag.
fromMatchByContent(match) ==
  ShortcodeOf(match.m2, match.m3, attrs(match.m3),
              IF Truthy(match.m4) THEN "self-closing"
              ELSE IF Truthy(match.m5) THEN "closed"
              ELSE "single",
              match.m5)

\* Shortcode.fromMatch, on a match of the matcher.
fromMatch(match) ==
  ShortcodeOf(match.m2, match.m3, attrs(match.m3),
              IF Truthy(match.m4) THEN "self-closing"
              ELSE IF Truthy(match.m6) THEN "closed"
              ELSE "single",
              match.m5)

HasSpace(value) == \E i \in 1..Len(value) : IsSpace(value[i])

RECURSIVE NumericText(_)
NumericText(numeric) ==
  IF numeric = <<>> THEN <<>>
  ELSE (IF HasSpace(Head(numeric))
        THEN <<" ", "\"">> \o Head(numeric) \o <<"\"">>
        ELSE <<" ">> \o Head(numeric)) \o NumericText(Tail(numeric))

RECURSIVE NamedText(_)
NamedText(named) ==
  IF named = <<>> THEN <<>>
  ELSE <<" ">> \o Head(named)[1] \o <<"=", "\"">> \o Head(named)[2] \o <<"\"">>
       \o NamedText(Tail(named))

\* Shortcode.prototype.string
string(sc) ==
  LET text == <<"[">> \o sc.tag \o NumericText(sc.attrs.numeric) \o NamedText(sc.attrs.named)
  IN IF sc.type = "single" THEN text \o <<"]">>
     ELSE IF sc.type = "self-closing" THEN text \o <<" ", "/", "]">>
     ELSE text \o <<"]">> \o (IF Truthy(sc.content) THEN sc.content ELSE <<>>)
          \o <<"[", "/">> \o sc.tag \o <<"]">>

----------------------------------------------------------------------------
(* Shortcode.next *)

\* The scan goes on from wherever the cached matcher was left.
StartIndexKept(index, cursor) == cursor

\* re.lastIndex = index || 0: the scan starts at the caller's index, whatever
\* position an earlier scan left in the cached matcher.
StartIndex(index, cursor) == index

\* The scan resumes one character into the escaped shortcode.
ResumeInside(match) == match.index + 1

\* The index the scan resumes at after an escaped shortcode: re.lastIndex.
ResumeIndex(match) == match.lastIndex

\* The leading bracket is stripped and result.index is not incremented.
StrippedNoShift(match) ==
  LET lead == IF Truthy(match.m1) THEN 1 ELSE 0
      trail == IF Truthy(match.m7) THEN 1 ELSE 0
  IN [index |-> match.index,
      content |-> Slice(match.m0, lead, Len(match.m0) - trail)]

\* result.index and result.content after the extra brackets are stripped.
Stripped(match) ==
  LET lead == IF Truthy(match.m1) THEN 1 ELSE 0
      trail == IF Truthy(match.m7) THEN 1 ELSE 0
  IN [index |-> match.index + lead,
      content |-> Slice(match.m0, lead, Len(match.m0) - trail)]

\* Whether both extra brackets exist: the shortcode is escaped.
Escaped(match) == match.m1 = <<"[">> /\ match.m7 = <<"]">>

RECURSIVE next(_, _, _, _)
\* Shortcode.next(tag, text, index) with the cached matcher's lastIndex at
\* cursor; the field cursor of the result is the lastIndex it leaves.
next(tag, text, index, cursor) ==
  IF ~Compiles(tag) THEN [kind |-> "SyntaxError", cursor |-> cursor]
  ELSE LET match == Exec(tag, text, StartIndex(index, cursor))
       IN IF ~match.found THEN [kind |-> "undefined", cursor |-> 0]
          ELSE IF Escaped(match)
            THEN next(tag, text, ResumeIndex(match), match.lastIndex)
          ELSE [kind |-> "result",
                index |-> Stripped(match).index,
                content |-> Stripped(match).content,
                shortcode |-> fromMatch(match),
                match |-> match,
                cursor |-> match.lastIndex]

----------------------------------------------------------------------------
(* Shortcode.replace: the pass of asyncReplace over the matcher's matches *)

RECURSIVE ScanFrom(_, _, _)
\* The matches of the global matcher over the whole text, in order, each
\* search starting where the previous match ended.
ScanFrom(tag, text, from) ==
  LET m == Exec(tag, text, from)
  IN IF ~m.found THEN <<>> ELSE <<m>> \o ScanFrom(tag, text, m.lastIndex)

\* The pass scans the whole text up front: its scan starts at offset 0,
\* whatever position an earlier scan left in the cached matcher.
ScanStart(cursor) == 0

RECURSIVE AssembleFrom(_, _, _, _)
\* The text with the k-th match replaced by the k-th piece and the spans
\* between the matches copied.
AssembleFrom(text, pos, matches, pieces) ==
  IF matches = <<>> THEN Slice(text, pos, Len(text))
  ELSE Slice(text, pos, Head(matches).index) \o Head(pieces)
       \o AssembleFrom(text, Head(matches).lastIndex, Tail(matches), Tail(pieces))

Assemble(text, matches, pieces) == AssembleFrom(text, 0, matches, pieces)

\* The function Shortcode.replace hands to asyncReplace, called on a match:
\* an escaped shortcode returns the match and neither calls the replacer nor
\* done; any other match calls replacer(Shortcode.fromMatch(arguments), done).
ReplaceCallback(match) ==
  [invokes |-> ~(match.m1 = <<"[">> /\ match.m7 = <<"]">>),
   shortcode |-> fromMatch(match)]

\* The replacer is handed a wrapper of done that drops the error.
HandedNoError(err, value) == [err |-> FALSE, value |-> value]

\* What asyncReplace receives when the replacer calls its second argument
\* with (err, value): the argument is done itself.  The replacer's return
\* value (left + result + right of line 96) is assigned and never used.
Handed(err, value) == [err |-> err, value |-> value]

----------------------------------------------------------------------------
(* State *)

VARIABLES
  tag,      \* the tag name of the calls
  text,     \* the text the calls scan
  cursor,   \* lastIndex of the cached matcher Shortcode.regexp(tag)
  result,   \* the latest Shortcode.next call: its index and what it returned
  passes,   \* the Shortcode.replace passes
  cache,    \* the memoize cache of Shortcode.attrs: text -> object
  heap,     \* the {named, numeric} objects, by reference
  ents,     \* the Shortcode entities: the reference each holds in attrs
  trip      \* the latest serialize / scan / serialize round trip

vars == <<tag, text, cursor, result, passes, cache, heap, ents, trip>>

\* Bounds of the checked instances.
MaxSegs == 4
MaxIndex == 2
MaxPassSegs == 2
MaxPassIndex == 1
MaxEnts == 2
MaxAttrs == 2
MaxNumeric == 2
MaxNamed == 1

\* The tag names: a valid one, the empty name, one that alters the pattern
\* and one that breaks its compilation.
TagNames == {<<"x">>, <<>>, <<".">>, <<"(">>}

\* A valid tag name is a non-empty token of [\w-].
ValidName(t) == Len(t) > 0 /\ \A i \in 1..Len(t) : IsWordOrHyphen(t[i])

RECURSIVE Concats(_, _)
\* The concatenations of at most n of the segments.
Concats(segs, n) ==
  IF n = 0 THEN {<<>>}
  ELSE Concats(segs, n - 1) \cup {a \o b : a \in Concats(segs, n - 1), b \in segs}

ScanSegments ==
  {<<"[">>, <<"]">>, <<"/">>, <<"x">>, <<"-">>, <<"[", "x", "]">>, <<"[", "/", "x", "]">>}

ScanTexts == Concats(ScanSegments, MaxSegs)

PassSegments ==
  {<<"[", "x", "]">>, <<"[", "[", "x", "]", "]">>, <<"[", "[", "x", "]">>,
   <<"[", "x", "]", "]">>, <<"a">>, <<"[", "x", "]", "a", "[", "/", "x", "]">>}

PassTexts == Concats(PassSegments, MaxPassSegs)

\* The strings a replacer hands to done.
Values == {<<"R">>, <<"Y">>}

Passes == {"A", "B"}

NotCalled == [called |-> FALSE]

NewPass ==
  [st |-> "new", spans |-> <<>>, k |-> 0, pieces |-> <<>>, invoked |-> <<>>,
   completed |-> <<>>, reported |-> 0, outcome |-> <<>>]

NoTrip == [done |-> FALSE]

\* The variables a specification does not use.
IdleScan == cursor = 0 /\ result = NotCalled
IdlePasses == passes = [p \in Passes |-> NewPass]
IdleAttrs == cache = <<>> /\ heap = <<>> /\ ents = <<>>
IdleTrip == trip = NoTrip

----------------------------------------------------------------------------
(* Shortcode.next calls *)

\* Shortcode.next(tag, text, index): it reads and writes the lastIndex of
\* the cached matcher.
CallNext(index) ==
  /\ result' = [called |-> TRUE, index |-> index, out |-> next(tag, text, index, cursor)]
  /\ cursor' = result'.out.cursor
  /\ UNCHANGED <<tag, text, passes, cache, heap, ents, trip>>

InitNext ==
  /\ tag \in TagNames
  /\ text \in ScanTexts
  /\ IdleScan /\ IdlePasses /\ IdleAttrs /\ IdleTrip

NextNext == \E index \in 0..MaxIndex : CallNext(index)

SpecNext == InitNext /\ [][NextNext]_vars

----------------------------------------------------------------------------
(* Shortcode.replace passes *)

\* The offsets of the matches of a scan, which a pass keeps from its start.
Spans(matches) == [i \in 1..Len(matches) |-> matches[i].index]

\* The matches pass p scanned when it started.
Matches(p) == [i \in 1..Len(p.spans) |-> MatchAt(tag, text, p.spans[i])]

\* asyncReplace at occurrence k of pass p with the pieces so far: past the
\* last match it delivers the assembled text; otherwise it calls the
\* function Shortcode.replace gave it and waits for done.
Dispatch(p, k, pieces) ==
  IF k > Len(p.spans)
  THEN [p EXCEPT !.st = "done", !.k = k, !.pieces = pieces,
                 !.outcome = Append(@, [kind |-> "text",
                                        value |-> Assemble(text, Matches(p), pieces)])]
  ELSE IF ReplaceCallback(MatchAt(tag, text, p.spans[k])).invokes
    THEN [p EXCEPT !.st = "waiting", !.k = k, !.pieces = pieces,
                   !.invoked = Append(@, k)]
    ELSE [p EXCEPT !.st = "hung", !.k = k, !.pieces = pieces]

\* Shortcode.replace(tag, text, replacer, callback)
Start(id) ==
  /\ passes[id].st = "new"
  /\ passes' = [passes EXCEPT ![id] =
       Dispatch([passes[id] EXCEPT !.spans = Spans(ScanFrom(tag, text, ScanStart(cursor)))],
                1, <<>>)]
  /\ cursor' = 0
  /\ UNCHANGED <<tag, text, result, cache, heap, ents, trip>>

\* The replacer of the occurrence pass id waits for calls its handle.
ReplacerCalls(id, err, value) ==
  /\ passes[id].st = "waiting"
  /\ LET p == [passes[id] EXCEPT !.completed = Append(@, passes[id].k),
                                 !.reported = IF err /\ @ = 0 THEN passes[id].k ELSE @]
         got == Handed(err, value)
     IN passes' = [passes EXCEPT ![id] =
          IF got.err
          THEN [p EXCEPT !.st = "failed", !.outcome = Append(@, [kind |-> "error", value |-> <<>>])]
          ELSE Dispatch(p, p.k + 1, Append(p.pieces, got.value))]
  /\ UNCHANGED <<tag, text, cursor, result, cache, heap, ents, trip>>

InitReplace ==
  /\ tag = <<"x">>
  /\ text \in PassTexts
  /\ IdleScan /\ IdlePasses /\ IdleAttrs /\ IdleTrip

NextReplace ==
  \/ \E id \in Passes : Start(id)
  \/ \E id \in Passes, value \in Values : ReplacerCalls(id, FALSE, value)
  \/ \E id \in Passes : ReplacerCalls(id, TRUE, <<>>)
  \/ \E index \in 0..MaxPassIndex : CallNext(index)

SpecReplace == InitReplace /\ [][NextReplace]_vars

----------------------------------------------------------------------------
(* Shortcode.attrs calls and Shortcode entities built from attribute strings *)

\* The attribute strings: a=x, x, and a=x y.
AttrTexts == {<<"a", "=", "x">>, <<"x">>, <<"a", "=", "x", " ", "y">>}

\* The values set() stores.
SetValues == {<<"y">>}

\* The named attributes set() is called with.
SetNames == {<<"a">>, <<"k">>}

\* _.memoize: the cached object of a key, or the function's result for a
\* new key, stored in the cache; the same object is returned at every call.
Memoized(t) == IF t \in DOMAIN cache THEN cache[t] ELSE Len(heap) + 1

MemoizeStep(t) ==
  IF t \in DOMAIN cache
  THEN UNCHANGED <<cache, heap>>
  ELSE /\ heap' = Append(heap, attrs(t))
       /\ cache' = [u \in DOMAIN cache \cup {t} |-> IF u = t THEN Len(heap) + 1 ELSE cache[u]]

\* Shortcode.attrs(text)
CallAttrs(t) ==
  /\ MemoizeStep(t)
  /\ UNCHANGED <<tag, text, cursor, result, passes, ents, trip>>

\* new Shortcode({attrs: t}) for a non-empty string t: this.attrs is the
\* object Shortcode.attrs(t) returns.
NewFromString(t) ==
  /\ Len(ents) < MaxEnts
  /\ MemoizeStep(t)
  /\ ents' = Append(ents, [ref |-> Memoized(t), text |-> t, touched |-> FALSE])
  /\ UNCHANGED <<tag, text, cursor, result, passes, trip>>

\* new Shortcode({attrs: ''}): !attrs, so this.attrs stays the entity's own
\* {named: {}, numeric: []}.
NewFromEmpty ==
  /\ Len(ents) < MaxEnts
  /\ heap' = Append(heap, EmptyAttrs)
  /\ ents' = Append(ents, [ref |-> Len(heap) + 1, text |-> <<>>, touched |-> FALSE])
  /\ UNCHANGED <<tag, text, cursor, result, passes, cache, trip>>

\* Shortcode.prototype.set with a string attr: this.attrs.named[attr] = value
SetNamed(e, name, value) ==
  /\ e \in 1..Len(ents)
  /\ Len(heap[ents[e].ref].named) < MaxAttrs \/ \E i \in 1..Len(heap[ents[e].ref].named) :
                                                   heap[ents[e].ref].named[i][1] = name
  /\ heap' = [heap EXCEPT ![ents[e].ref].named = SetKey(@, name, value)]
  /\ ents' = [ents EXCEPT ![e].touched = TRUE]
  /\ UNCHANGED <<tag, text, cursor, result, passes, cache, trip>>

\* Shortcode.prototype.set with a number attr: this.attrs.numeric[attr] = value
SetNumeric(e, index, value) ==
  /\ e \in 1..Len(ents)
  /\ index <= Len(heap[ents[e].ref].numeric)
  /\ index < MaxAttrs
  /\ heap' = [heap EXCEPT ![ents[e].ref].numeric =
                IF index < Len(@) THEN [@ EXCEPT ![index + 1] = value] ELSE Append(@, value)]
  /\ ents' = [ents EXCEPT ![e].touched = TRUE]
  /\ UNCHANGED <<tag, text, cursor, result, passes, cache, trip>>

InitAttrs ==
  /\ tag = <<"x">>
  /\ text = <<>>
  /\ cache = [t \in {} |-> 0]
  /\ heap = <<>>
  /\ ents = <<>>
  /\ IdleScan /\ IdlePasses /\ IdleTrip

NextAttrs ==
  \/ \E t \in AttrTexts : CallAttrs(t)
  \/ \E t \in AttrTexts : NewFromString(t)
  \/ NewFromEmpty
  \/ \E e \in 1..MaxEnts, name \in SetNames, value \in SetValues : SetNamed(e, name, value)
  \/ \E e \in 1..MaxEnts, index \in 0..MaxAttrs, value \in SetValues : SetNumeric(e, index, value)

SpecAttrs == InitAttrs /\ [][NextAttrs]_vars

----------------------------------------------------------------------------
(* Serialize, scan, serialize again *)

\* The numeric values: a, "a b", and a=b, a/, the empty string.
RoundNumericValues ==
  {<<"a">>, <<"a", " ", "b">>, <<"a", "=", "b">>, <<"a", "/">>, <<>>}

\* The named values: a, "a b", the empty string, and a".
RoundNamedValues == {<<"a">>, <<"a", " ", "b">>, <<>>, <<"a", "\"">>}

RoundNames == {<<"a">>, <<"k">>, <<"A">>}

\* The contents: empty, a, a nested opening tag, and a closing tag.
RoundContents ==
  {<<>>, <<"a">>, <<"[", "x", "]", "a">>, <<"[", "/", "x", "]">>}

RECURSIVE Lists(_, _)
\* The sequences of at most n of the values.
Lists(values, n) ==
  IF n = 0 THEN {<<>>}
  ELSE Lists(values, n - 1)
       \cup {Append(l, v) : l \in Lists(values, n - 1), v \in values}

\* The objects of at most n named attributes, as their pairs.
NamedObjects(n) ==
  {l \in Lists(RoundNames \X RoundNamedValues, n) :
     \A i, j \in 1..Len(l) : i # j => l[i][1] # l[j][1]}

\* The shortcodes of the round trips: closed, with a {named, numeric}
\* object for options.attrs, which the constructor keeps as it is.
RoundShortcodes ==
  {[tag |-> <<"x">>, attrs |-> [named |-> named, numeric |-> numeric],
    type |-> "closed", content |-> content] :
     named \in NamedObjects(MaxNamed), numeric \in Lists(RoundNumericValues, MaxNumeric),
     content \in RoundContents}

\* Shortcode.string(options), then Shortcode.next on the string it returns
\* and string() of the shortcode found.
RoundTrip ==
  LET first == string(trip.t)
      out == next(tag, first, 0, cursor)
  IN /\ ~trip.done
     /\ trip' = [done |-> TRUE, t |-> trip.t, first |-> first, kind |-> out.kind,
                 second |-> IF out.kind = "result" THEN string(out.shortcode) ELSE Undefined]
     /\ cursor' = out.cursor
     /\ UNCHANGED <<tag, text, result, passes, cache, heap, ents>>

InitRound ==
  /\ tag = <<"x">>
  /\ text = <<>>
  /\ trip \in {[done |-> FALSE, t |-> t] : t \in RoundShortcodes}
  /\ IdleScan /\ IdlePasses /\ IdleAttrs

NextRound == RoundTrip

SpecRound == InitRound /\ [][NextRound]_vars

----------------------------------------------------------------------------
(* Claims about Shortcode.next, checked under SpecNext *)

\* Both escape groups of a match are present.
FullyEscaped(m) == m.m1 = <<"[">> /\ m.m7 = <<"]">>

RECURSIVE FirstVisible(_)
\* The first match of a sequence of matches that is not fully escaped.
FirstVisible(ms) ==
  IF ms = <<>> THEN NoMatch
  ELSE IF FullyEscaped(Head(ms)) THEN FirstVisible(Tail(ms))
  ELSE Head(ms)

\* C4: next never returns a fully-escaped occurrence: of the successive
\* matches of the matcher from fromIndex on, each search resuming just
\* past the previous match, it returns the first one that is not fully
\* escaped, and none when there is no such match; next("x", "[[x]]") is none.
C4_NextSkipsEscaped ==
  (result.called /\ result.out.kind # "SyntaxError") =>
    LET first == FirstVisible(ScanFrom(tag, text, result.index))
    IN /\ result.out.kind = "result" =>
            /\ ~FullyEscaped(result.out.match)
            /\ result.out.match.index >= result.index
       /\ IF first.found
          THEN result.out.kind = "result" /\ result.out.match = first
          ELSE result.out.kind = "undefined"
       /\ (tag = <<"x">> /\ text = <<"[", "[", "x", "]", "]">> /\ result.index = 0)
            => result.out.kind = "undefined"

\* A call that discarded a fully-escaped match and returned a later occurrence.
C4_Witness ==
  /\ result.called
  /\ tag = <<"x">>
  /\ result.out.kind = "result"
  /\ FullyEscaped(Exec(tag, text, result.index))
  /\ result.out.match.index > result.index

\* C5: the reported matchedText is the substring of the text at the
\* reported offset, and the offset is at or after fromIndex; a lone leading
\* "[" is left out and the offset advanced past it, a lone trailing "]" is
\* left out of the end; next("x", "[[x]") reports "[x]" at offset 1.
C5_MatchedTextIsSubstring ==
  (result.called /\ result.out.kind = "result") =>
    LET out == result.out
        m == out.match
    IN /\ out.index >= result.index
       /\ out.index + Len(out.content) <= Len(text)
       /\ out.content = Slice(text, out.index, out.index + Len(out.content))
       /\ out.index = m.index + Len(m.m1)
       /\ out.index + Len(out.content) = m.lastIndex - Len(m.m7)
       /\ (tag = <<"x">> /\ text = <<"[", "[", "x", "]">> /\ result.index = 0)
            => (out.index = 1 /\ out.content = <<"[", "x", "]">>)

\* A result whose match had a lone leading "[".
C5_Witness ==
  /\ result.called
  /\ tag = <<"x">>
  /\ result.out.kind = "result"
  /\ result.out.match.m1 = <<"[">>
  /\ result.out.match.m7 = <<>>
  /\ result.out.index = result.out.match.index + 1

\* C8: for every invalid tag name (the empty name, a name with a character
\* that breaks or alters the pattern) the compilation fails, and no next
\* call runs with a matcher built from such a name.
C8_InvalidNameFails ==
  (result.called /\ ~ValidName(tag)) => result.out.kind = "SyntaxError"

----------------------------------------------------------------------------
(* Claims about Shortcode.replace, checked under SpecReplace *)

\* Whether s is a prefix of t.
IsPrefix(s, t) == Len(s) <= Len(t) /\ s = SubSeq(t, 1, Len(s))

RECURSIVE VisibleIndices(_, _)
\* The positions, in order from k on, of the matches that are not fully escaped.
VisibleIndices(ms, k) ==
  IF k > Len(ms) THEN <<>>
  ELSE IF FullyEscaped(ms[k]) THEN VisibleIndices(ms, k + 1)
  ELSE <<k>> \o VisibleIndices(ms, k + 1)

RECURSIVE ReplacedFrom(_, _, _)
\* The text from pos on with each occurrence next reports, one after the
\* other, replaced by the next of the values, and the rest copied.
ReplacedFrom(txt, pos, values) ==
  LET occ == next(tag, txt, pos, 0)
  IN IF occ.kind # "result" \/ values = <<>> THEN Slice(txt, pos, Len(txt))
     ELSE Slice(txt, pos, occ.index) \o Head(values)
          \o ReplacedFrom(txt, occ.index + Len(occ.content), Tail(values))

RECURSIVE UnwrappedFrom(_, _, _, _)
\* The text from pos on with each fully-escaped match replaced by itself
\* less its outer brackets and every other match by the next of the values.
UnwrappedFrom(txt, pos, ms, values) ==
  IF ms = <<>> THEN Slice(txt, pos, Len(txt))
  ELSE LET m == Head(ms)
       IN IF FullyEscaped(m)
          THEN Slice(txt, pos, m.index) \o Slice(m.m0, 1, Len(m.m0) - 1)
               \o UnwrappedFrom(txt, m.lastIndex, Tail(ms), values)
          ELSE Slice(txt, pos, m.index) \o m.m1 \o Head(values) \o m.m7
               \o UnwrappedFrom(txt, m.lastIndex, Tail(ms), Tail(values))

\* The replacer invocations of a pass: each occurrence that is not fully
\* escaped at most once, in source order, one at a time.
InOrderOneAtATime(p) ==
  /\ IsPrefix(p.invoked, VisibleIndices(ScanFrom(tag, text, 0), 1))
  /\ IsPrefix(p.completed, p.invoked)
  /\ Len(p.invoked) - Len(p.completed) <= 1

\* C1: the replacer is invoked once per non-escaped occurrence in source
\* order, never before the completion handle of the previous occurrence was
\* called, and the final text holds each replacement at the position of its
\* own occurrence (the occurrence next reports), the rest of the text copied.
C1_OrderedReplacement ==
  \A id \in Passes :
    LET p == passes[id]
    IN /\ InOrderOneAtATime(p)
       /\ p.st = "done" =>
            /\ p.invoked = VisibleIndices(ScanFrom(tag, text, 0), 1)
            /\ p.outcome = <<[kind |-> "text", value |-> ReplacedFrom(text, 0, p.pieces)]>>

\* C2: once a replacer invocation reported a failure for occurrence k, the
\* replacer is invoked for no later occurrence, the failure is delivered to
\* the caller and no text is.
C2_FailureAborts ==
  \A id \in Passes :
    LET p == passes[id]
    IN p.reported > 0 =>
         /\ \A i \in 1..Len(p.invoked) : p.invoked[i] <= p.reported
         /\ p.outcome = <<[kind |-> "error", value |-> <<>>]>>

\* A pass whose first of two occurrences failed after the other pass, on
\* the same text, went on to its second occurrence.
C2_Witness ==
  /\ passes["A"].reported = 1
  /\ Len(passes["A"].spans) = 2
  /\ passes["B"].k = 2
  /\ passes["B"].st = "waiting"

\* C3: a fully-escaped occurrence is never passed to the replacer, and a
\* pass that came to one delivers the final text, which holds the occurrence
\* with one layer of its brackets removed.
C3_EscapedPassedThrough ==
  \A id \in Passes :
    LET p == passes[id]
        ms == ScanFrom(tag, text, 0)
    IN /\ \A i \in 1..Len(p.invoked) : ~FullyEscaped(ms[p.invoked[i]])
       /\ (/\ p.st \notin {"new", "waiting", "failed"}
           /\ \E k \in 1..Len(ms) : FullyEscaped(ms[k]))
            => /\ p.st = "done"
               /\ p.outcome = <<[kind |-> "text",
                                 value |-> UnwrappedFrom(text, 0, ms, p.pieces)]>>

\* C10: a pass delivers exactly one outcome: never more than one, and one
\* as soon as it is started and awaits no replacer, whatever the text.
C10_OneOutcome ==
  \A id \in Passes :
    LET p == passes[id]
    IN /\ Len(p.outcome) <= 1
       /\ p.st \notin {"new", "waiting"} => Len(p.outcome) = 1

\* Each scan finds what it finds when it runs alone: a next call what the
\* call returns from a matcher no scan has used, a pass the matches of its
\* text from offset 0, of which it visits the non-escaped ones in order and
\* whose replacements make up its final text.
ScansIndependent ==
  /\ result.called => result.out = next(tag, text, result.index, 0)
  /\ \A id \in Passes :
       LET p == passes[id]
       IN p.st # "new" =>
            /\ p.spans = Spans(ScanFrom(tag, text, 0))
            /\ InOrderOneAtATime(p)
            /\ p.st = "done" =>
                 p.outcome = <<[kind |-> "text",
                                value |-> Assemble(text, ScanFrom(tag, text, 0), p.pieces)]>>

\* C6 as amended: two scans of the same tag run independently although the
\* cached matcher carries one scan position for all of them, because every
\* scan sets that position before it searches.
C6_ScansIndependent == ScansIndependent

\* C6 as stated: the scans run independently because no scan position is
\* shared through the cached matcher, which is as compiled whatever ran.
C6_NoSharedCursor == ScansIndependent /\ cursor = 0

\* A pass suspended in its replacer while a next call left its position in
\* the cached matcher and the other pass then ran to its end.
C6_Witness ==
  /\ passes["A"].st = "waiting"
  /\ passes["A"].k = 2
  /\ result.called
  /\ cursor > 0
  /\ passes["B"].st = "done"
  /\ Len(passes["B"].pieces) = 2

----------------------------------------------------------------------------
(* Claims about Shortcode.attrs and set, checked under SpecAttrs *)

\* C7: the parse of a text is the same after any sequence of operations:
\* set on an entity built from an attribute string changes that entity
\* alone, and neither what Shortcode.attrs returns for the text nor the
\* attributes of another entity parsed from the same text.
C7_SetChangesOneEntity ==
  /\ \A t \in DOMAIN cache : heap[cache[t]] = attrs(t)
  /\ \A e \in 1..Len(ents) :
       ~ents[e].touched => heap[ents[e].ref] = attrs(ents[e].text)

----------------------------------------------------------------------------
(* Claims about the round trip, checked under SpecRound *)

HasChar(s, c) == \E i \in 1..Len(s) : s[i] = c

\* The content holds no closing tag of the shortcode.
NoClosingTag(t) ==
  ~Truthy(t.content) \/ IndexOfSub(t.content, <<"[", "/">> \o t.tag \o <<"]">>, 0) < 0

\* A numeric value the attribute text carries unchanged.
PlainNumeric(v) ==
  /\ v # <<>>
  /\ ~HasChar(v, "]") /\ ~HasChar(v, "\"") /\ ~HasChar(v, "nbsp")
  /\ HasSpace(v) \/ (~HasChar(v, "=") /\ v[Len(v)] # "/")

\* A named attribute the attribute text carries unchanged.
PlainNamed(name, v) ==
  /\ name # <<>>
  /\ \A i \in 1..Len(name) : name[i] \in WordChars /\ LowerChar(name[i]) = name[i]
  /\ ~HasChar(v, "]") /\ ~HasChar(v, "\"") /\ ~HasChar(v, "nbsp")

PlainAttrs(t) ==
  /\ \A i \in 1..Len(t.attrs.numeric) : PlainNumeric(t.attrs.numeric[i])
  /\ \A i \in 1..Len(t.attrs.named) : PlainNamed(t.attrs.named[i][1], t.attrs.named[i][2])

====
